---- MODULE Spec2Model ----
(***************************************************************************)
(* china-stock-mcp-server: the response formatter                          *)
(* (format_dataframe_to_json) and the tool wrappers registered with        *)
(* @mcp.tool() in src/server.py and src/main.py.                           *)
(*                                                                         *)
(* Python values are records tagged with their type in the field py.  A    *)
(* DataFrame is [py, columns, rows]: columns is the sequence of column     *)
(* labels, rows the sequence of rows, each row the sequence of its cells   *)
(* in column order.  Column labels of a DataFrame are distinct strings     *)
(* (what the data library returns); cells are strings, "NaN" standing for  *)
(* a missing value and "inf" for an infinite one.  A JSON document is the  *)
(* record (object), sequence (array), string, integer or boolean it        *)
(* denotes; JSON null is "null".                                           *)
(* Strings that are Chinese in the source are transliterated.              *)
(***************************************************************************)
EXTENDS Integers, Sequences, FiniteSets, TLC

VARIABLES
    fmt_pc,        \* direct formatter call: "start" before the call, "done" after
    fmt_df,        \* the caller's table passed as df
    fmt_max_rows,  \* the caller's max_rows
    fmt_out,       \* what the direct call produced (returned string or raised exception)
    main_out,      \* what the formatter of src/main.py produced for the same table and cap
    clock,         \* the current date, read by datetime.now()
    pc,            \* per invocation: "idle", "in_call" (inside ak.<fn>(...)), "done"
    tool,          \* per invocation: the wrapper invoked
    params,        \* per invocation: the wrapper's parameters as bound at entry
    calls,         \* per invocation: the external library calls made so far
    ext,           \* per invocation: how the external call ended
    response,      \* per invocation: what the wrapper produced
    registry,      \* the server's table of tools: tool name -> handler function
    reg_pc         \* module import: the index of the next @mcp.tool() to run

vars == <<fmt_pc, fmt_df, fmt_max_rows, fmt_out, main_out, clock, pc, tool, params, calls, ext, response,
          registry, reg_pc>>
fmtvars == <<fmt_pc, fmt_df, fmt_max_rows, fmt_out, main_out>>
regvars == <<registry, reg_pc>>
toolvars == <<clock, pc, tool, params, calls, ext, response, registry, reg_pc>>

(***************************************************************************)
(* Bounds of the model.                                                    *)
(***************************************************************************)
MaxRows == 3        \* rows of a table given to the formatter directly
MaxCols == 2        \* columns of such a table
MaxCap == 4         \* largest max_rows of a direct call
NegCap == 1         \* direct calls use max_rows from -NegCap
Over == 1           \* external tables have up to DefaultMaxRows + Over rows
MaxSupplied == 1    \* parameters a caller supplies explicitly in one invocation

(***************************************************************************)
(* Python and pandas primitives used by the code.                          *)
(***************************************************************************)
Min(a, b) == IF a <= b THEN a ELSE b
Max(a, b) == IF a >= b THEN a ELSE b

None == [py |-> "None"]
DataFrame(cols, rs) == [py |-> "DataFrame", columns |-> cols, rows |-> rs]
NotATable == [py |-> "str"]
NaN == "NaN"
Inf == "inf"
null == "null"

Range(s) == {s[i] : i \in DOMAIN s}

\* len(df): the number of rows
len(df) == Len(df.rows)

\* df.empty: any axis has length 0
empty_mut_rows_only(df) == Len(df.rows) = 0
empty(df) == Len(df.rows) = 0 \/ Len(df.columns) = 0

\* df.head(n): the first n rows; all but the last -n rows when n is negative
head_mut_one_more(df, n) ==
    DataFrame(df.columns,
              SubSeq(df.rows, 1, IF n >= 0 THEN Min(n + 1, len(df)) ELSE Max(len(df) + n, 0)))
head(df, n) ==
    DataFrame(df.columns,
              SubSeq(df.rows, 1, IF n >= 0 THEN Min(n, len(df)) ELSE Max(len(df) + n, 0)))

\* df.columns.tolist()
columns_tolist_mut_reversed(df) ==
    [k \in 1..Len(df.columns) |-> df.columns[Len(df.columns) + 1 - k]]
columns_tolist(df) == df.columns

\* the JSON value of one cell: to_json writes a missing or non-finite value as null
json_cell_mut_keep(v) == v
json_cell(v) == IF v \in {NaN, Inf} THEN null ELSE v

\* json.loads(df.to_json(orient="records")): one object per row, keyed by column label
to_json_records_mut_dropna(df) ==
    [i \in 1..Len(df.rows) |->
        LET cell(c) == df.rows[i][CHOOSE k \in DOMAIN df.columns : df.columns[k] = c]
        IN  [c \in {x \in Range(df.columns) : cell(x) \notin {NaN, Inf}} |-> cell(c)]]
to_json_records(df) ==
    [i \in 1..Len(df.rows) |->
        [c \in Range(df.columns) |->
            json_cell(df.rows[i][CHOOSE k \in DOMAIN df.columns : df.columns[k] = c])]]

\* json.dumps(d): the JSON object of a dict.  A dict display is the sequence of its
\* <<key, value>> items as written; the object has one member per key, and a key
\* written twice keeps its last value.
json_dumps(d) ==
    [k \in {d[i][1] : i \in DOMAIN d} |->
        d[CHOOSE i \in DOMAIN d : d[i][1] = k /\ \A j \in DOMAIN d : d[j][1] = k => j <= i][2]]

\* outcomes of a Python call
Return(v) == [kind |-> "return", value |-> v]
Raise(cls, msg) == [kind |-> "raise", exc |-> [cls |-> cls, base |-> "Exception", msg |-> msg]]

\* str(e)
str(e) == e.msg

DefaultMaxRows == 50

(***************************************************************************)
(* format_dataframe_to_json(df, max_rows=50)                               *)
(***************************************************************************)
\* df is None or df.empty
no_data_mut_none_only(df) == df.py = "None"
no_data(df) == df.py = "None" \/ empty(df)

\* len(df) > max_rows
over_limit_mut_falsy_zero(df, max_rows) == max_rows # 0 /\ len(df) > max_rows
over_limit_mut_ge(df, max_rows) == len(df) >= max_rows
over_limit(df, max_rows) == len(df) > max_rows

\* the dict result = {...}, built from the table as it is after the truncation step
result_dict_mut_no_min(df, truncated, max_rows) ==
    << <<"data", to_json_records(df)>>,
       <<"columns", columns_tolist(df)>>,
       <<"truncated", truncated>>,
       <<"total_rows", len(df)>>,
       <<"displayed_rows", max_rows>> >>
result_dict(df, truncated, max_rows) ==
    << <<"data", to_json_records(df)>>,
       <<"columns", columns_tolist(df)>>,
       <<"truncated", truncated>>,
       <<"total_rows", len(df)>>,
       <<"displayed_rows", Min(max_rows, len(df))>> >>

format_dataframe_to_json(df, max_rows) ==
    IF df.py \notin {"None", "DataFrame"}
    THEN Raise("AttributeError", "'" \o df.py \o "' object has no attribute 'empty'")
    ELSE IF no_data(df)
    THEN Return(json_dumps(<< <<"error", "No data available">> >>))
    ELSE LET truncated == over_limit(df, max_rows)
             df1 == IF truncated THEN head(df, max_rows) ELSE df
         IN  Return(json_dumps(result_dict(df1, truncated, max_rows)))

\* the format_dataframe_to_json of src/main.py
main_format_dataframe_to_json_mut_total(df, max_rows) ==
    IF df.py \notin {"None", "DataFrame"}
    THEN Raise("AttributeError", "'" \o df.py \o "' object has no attribute 'empty'")
    ELSE IF df.py = "None" \/ empty(df)
    THEN Return(json_dumps(<< <<"error", "No data available">> >>))
    ELSE LET result(d, truncated) ==
                 << <<"data", to_json_records(d)>>,
                    <<"columns", columns_tolist(d)>>,
                    <<"truncated", truncated>>,
                    <<"total_rows", len(df)>>,
                    <<"displayed_rows", Min(max_rows, len(d))>> >>
         IN  IF len(df) > max_rows
             THEN Return(json_dumps(result(head(df, max_rows), TRUE)))
             ELSE Return(json_dumps(result(df, FALSE)))
main_format_dataframe_to_json(df, max_rows) ==
    IF df.py \notin {"None", "DataFrame"}
    THEN Raise("AttributeError", "'" \o df.py \o "' object has no attribute 'empty'")
    ELSE IF df.py = "None" \/ empty(df)
    THEN Return(json_dumps(<< <<"error", "No data available">> >>))
    ELSE LET result(d, truncated) ==
                 << <<"data", to_json_records(d)>>,
                    <<"columns", columns_tolist(d)>>,
                    <<"truncated", truncated>>,
                    <<"total_rows", len(d)>>,
                    <<"displayed_rows", Min(max_rows, len(d))>> >>
         IN  IF len(df) > max_rows
             THEN Return(json_dumps(result(head(df, max_rows), TRUE)))
             ELSE Return(json_dumps(result(df, FALSE)))

(***************************************************************************)
(* Direct calls of the formatter: every table up to MaxRows x MaxCols.     *)
(***************************************************************************)
ColNames == {"date", "close"}
CellVals == {"1", NaN, Inf}

SeqsUpTo(S, n) == UNION {[1..k -> S] : k \in 0..n}
ColumnLists == {cs \in SeqsUpTo(ColNames, MaxCols) : \A i, j \in DOMAIN cs : cs[i] = cs[j] => i = j}
Tables == UNION {{DataFrame(cs, rs) : rs \in SeqsUpTo([1..Len(cs) -> CellVals], MaxRows)} : cs \in ColumnLists}
Caps == (0 - NegCap)..MaxCap
NoResult == [kind |-> "none"]

FmtInit ==
    /\ fmt_pc = "start"
    /\ fmt_df \in Tables \cup {None, NotATable}
    /\ fmt_max_rows \in Caps
    /\ fmt_out = NoResult
    /\ main_out = NoResult

FormatCall_mut_inplace ==
    /\ fmt_pc = "start"
    /\ fmt_out' = format_dataframe_to_json(fmt_df, fmt_max_rows)
    /\ fmt_pc' = "done"
    /\ fmt_df' = IF fmt_df.py = "DataFrame" /\ ~no_data(fmt_df) /\ over_limit(fmt_df, fmt_max_rows)
                 THEN head(fmt_df, fmt_max_rows) ELSE fmt_df
    /\ UNCHANGED <<fmt_max_rows, main_out>>
    /\ UNCHANGED toolvars
\* a caller passes its table and cap; df = df.head(max_rows) rebinds the local name
\* to a new table, the caller's table object is not touched
FormatCall ==
    /\ fmt_pc = "start"
    /\ fmt_out' = format_dataframe_to_json(fmt_df, fmt_max_rows)
    /\ fmt_pc' = "done"
    /\ UNCHANGED <<fmt_df, fmt_max_rows, main_out>>
    /\ UNCHANGED toolvars

\* the same caller passes the same table and cap to the formatter of src/main.py
MainFormatCall ==
    /\ main_out = NoResult
    /\ main_out' = main_format_dataframe_to_json(fmt_df, fmt_max_rows)
    /\ UNCHANGED <<fmt_pc, fmt_df, fmt_max_rows, fmt_out>>
    /\ UNCHANGED toolvars

(***************************************************************************)
(* The tool wrappers.  Each wrapper is                                     *)
(*     try: df = ak.<fn>(<arguments>); return format_dataframe_to_json(df) *)
(*     except Exception as e: return json.dumps({"error": str(e)})         *)
(* The wrappers modelled are one of each shape found in src/server.py.     *)
(***************************************************************************)
Invs == {"i1", "i2"}

Tools == {"stock_sse_summary", "stock_szse_summary", "stock_zh_a_spot_em",
          "stock_notice_report", "news_report_time_baidu", "stock_hk_hist",
          "stock_hk_hist_min_em", "stock_zh_vote_baidu", "stock_zygc_em"}

Required == "<required>"     \* a parameter declared without a default
NoneParam == "<None>"        \* the default None of a parameter

\* the declared parameters of each wrapper, in order, each with its literal default
stock_sse_summary_params == <<>>
stock_szse_summary_params == << <<"date", Required>> >>
stock_zh_a_spot_em_params == <<>>
stock_notice_report_params == << <<"symbol", "quanbu">>, <<"date", NoneParam>> >>
news_report_time_baidu_params == << <<"date", "20241107">> >>
stock_hk_hist_params ==
    << <<"symbol", "01611">>, <<"period", "daily">>, <<"adjust", "">>,
       <<"start_date", "1979-09-01 09:32:00">>, <<"end_date", "2222-01-01 09:32:00">> >>
stock_hk_hist_min_em_params ==
    << <<"symbol", "01611">>, <<"period", "1">>, <<"adjust", "">>,
       <<"start_date", "1979-09-01 09:32:00">>, <<"end_date", "2222-01-01 09:32:00">> >>
stock_zh_vote_baidu_params == << <<"symbol", "000001">>, <<"indicator", "zhishu">> >>
stock_zygc_em_params == << <<"symbol", "000001">>, <<"date", "20231231">> >>

\* the registration table: tool name -> handler (here its parameter list)
Signature(t) ==
    CASE t = "stock_sse_summary" -> stock_sse_summary_params
      [] t = "stock_szse_summary" -> stock_szse_summary_params
      [] t = "stock_zh_a_spot_em" -> stock_zh_a_spot_em_params
      [] t = "stock_notice_report" -> stock_notice_report_params
      [] t = "news_report_time_baidu" -> news_report_time_baidu_params
      [] t = "stock_hk_hist" -> stock_hk_hist_params
      [] t = "stock_hk_hist_min_em" -> stock_hk_hist_min_em_params
      [] t = "stock_zh_vote_baidu" -> stock_zh_vote_baidu_params
      [] t = "stock_zygc_em" -> stock_zygc_em_params

ParamNames(t) == {Signature(t)[k][1] : k \in DOMAIN Signature(t)}
Default(t, n) == Signature(t)[CHOOSE k \in DOMAIN Signature(t) : Signature(t)[k][1] = n][2]

\* values a caller supplies
ArgVals == {"X"}

\* the parameter bindings of an invocation: each parameter is the caller's value or,
\* when the caller omits it, its default; a parameter without default is always supplied
RequiredNames(t) == {n \in ParamNames(t) : Default(t, n) = Required}
Bindings(t) ==
    UNION {{[n \in ParamNames(t) |-> IF n \in S \cup RequiredNames(t) THEN v[n] ELSE Default(t, n)] :
                v \in [ParamNames(t) -> ArgVals]} :
           S \in {S \in SUBSET (ParamNames(t) \ RequiredNames(t)) : Cardinality(S) <= MaxSupplied}}

\* datetime.now().strftime("%Y%m%d")
Dates == {<<2024, 6, 13>>, <<2025, 12, 1>>}
Pad2(n) == IF n < 10 THEN "0" \o ToString(n) ELSE ToString(n)
strftime_mut_nopad(d) == ToString(d[1]) \o ToString(d[2]) \o ToString(d[3])
strftime(d) == ToString(d[1]) \o Pad2(d[2]) \o Pad2(d[3])

\* an external library call: the function and the arguments it receives, by the
\* name of the parameter that receives them (a positional argument is received
\* by the parameter of that position)
Call(fn, args) == [kind |-> "call", fn |-> fn, args |-> args]
NoArgs == [n \in {} |-> ""]
NameError(name) == Raise("NameError", "name '" \o name \o "' is not defined")

\* the first statements of each wrapper's try block, up to the external call:
\* p is the wrapper's parameters, now the value of datetime.now()
stock_sse_summary_call(p, now) == Call("stock_sse_summary", NoArgs)
stock_szse_summary_call(p, now) == Call("stock_szse_summary", [date |-> p.date])
stock_zh_a_spot_em_call(p, now) == Call("stock_zh_a_spot_em", NoArgs)
stock_notice_report_call(p, now) ==
    LET date == IF p.date = NoneParam THEN strftime(now) ELSE p.date
    IN  Call("stock_notice_report", [symbol |-> p.symbol, date |-> date])
news_report_time_baidu_call(p, now) == Call("news_report_time_baidu", [date |-> "20241107"])
stock_hk_hist_call_mut_symbol(p, now) == Call("stock_hk_hist", [symbol |-> p.symbol])
stock_hk_hist_call(p, now) == Call("stock_hk_hist", NoArgs)
stock_hk_hist_min_em_call(p, now) == Call("stock_hk_hist_min_em", NoArgs)
stock_zh_vote_baidu_call_mut_symbol(p, now) ==
    Call("stock_zh_vote_baidu", [symbol |-> p.symbol, indicator |-> p.indicator])
stock_zh_vote_baidu_call(p, now) == NameError("symbo")
stock_zygc_em_call(p, now) == Call("stock_zygc_em", [symbol |-> p.symbol])

\* the registration table: tool name -> handler (here its code up to the call)
CallExpr(t, p, now) ==
    CASE t = "stock_sse_summary" -> stock_sse_summary_call(p, now)
      [] t = "stock_szse_summary" -> stock_szse_summary_call(p, now)
      [] t = "stock_zh_a_spot_em" -> stock_zh_a_spot_em_call(p, now)
      [] t = "stock_notice_report" -> stock_notice_report_call(p, now)
      [] t = "news_report_time_baidu" -> news_report_time_baidu_call(p, now)
      [] t = "stock_hk_hist" -> stock_hk_hist_call(p, now)
      [] t = "stock_hk_hist_min_em" -> stock_hk_hist_min_em_call(p, now)
      [] t = "stock_zh_vote_baidu" -> stock_zh_vote_baidu_call(p, now)
      [] t = "stock_zygc_em" -> stock_zygc_em_call(p, now)

\* except Exception as e: return json.dumps({"error": str(e)})
Handler_mut_narrow(outcome) ==
    IF outcome.kind = "raise" /\ outcome.exc.cls = "ConnectionError"
    THEN Return(json_dumps(<< <<"error", str(outcome.exc)>> >>))
    ELSE outcome
Handler_mut_partial(outcome) ==
    IF outcome.kind = "raise" /\ outcome.exc.base = "Exception"
    THEN Return(json_dumps(<< <<"error", str(outcome.exc)>>, <<"data", <<>> >> >>))
    ELSE outcome
Handler(outcome) ==
    IF outcome.kind = "raise" /\ outcome.exc.base = "Exception"
    THEN Return(json_dumps(<< <<"error", str(outcome.exc)>> >>))
    ELSE outcome

\* what the external library can return: nothing, a value that is not a table, or a table
Row(i) == <<"d" \o ToString(i), IF i = 1 THEN NaN ELSE IF i = 2 THEN Inf ELSE "c" \o ToString(i)>>
ExtTable(n) == DataFrame(<<"date", "close">>, [i \in 1..n |-> Row(i)])
ExtSizes == {0, 1} \cup (DefaultMaxRows..(DefaultMaxRows + Over))
ExtResults == {None, NotATable, DataFrame(<<>>, << <<>> >>)} \cup {ExtTable(n) : n \in ExtSizes}
\* what it can raise
ExtExceptions == {Raise("ConnectionError", "timed out").exc, Raise("KeyError", "'date'").exc}

\* the functions under an @mcp.tool() decorator, in the order the module runs
\* them: each is a function object, known by its name and the line of its def
Fn(name, line) == [name |-> name, line |-> line]
Decorated_mut_copy_paste ==
    << Fn("stock_sse_summary", 38), Fn("stock_szse_summary", 78),
       Fn("stock_zh_a_spot_em", 118), Fn("stock_notice_report", 1829),
       Fn("news_report_time_baidu", 2338), Fn("stock_hk_hist", 5724),
       Fn("stock_hk_hist", 5747), Fn("stock_zh_vote_baidu", 13113),
       Fn("stock_zygc_em", 13274) >>
Decorated ==
    << Fn("stock_sse_summary", 38), Fn("stock_szse_summary", 78),
       Fn("stock_zh_a_spot_em", 118), Fn("stock_notice_report", 1829),
       Fn("news_report_time_baidu", 2338), Fn("stock_hk_hist", 5724),
       Fn("stock_hk_hist_min_em", 5747), Fn("stock_zh_vote_baidu", 13113),
       Fn("stock_zygc_em", 13274) >>

\* mcp.tool()(fn): the tool is named after the function; a name already in the
\* table keeps its handler
add_tool(reg, fn) ==
    IF fn.name \in DOMAIN reg THEN reg ELSE (fn.name :> fn) @@ reg

\* the table after the first k decorators have run
RECURSIVE Imported(_)
Imported(k) == IF k = 0 THEN <<>> ELSE add_tool(Imported(k - 1), Decorated[k])

\* the module has been imported: every decorator has run, the server can serve
Serving == reg_pc > Len(Decorated)

Init ==
    /\ registry = <<>>
    /\ reg_pc = 1
    /\ fmt_pc = "start"
    /\ fmt_df = None
    /\ fmt_max_rows = DefaultMaxRows
    /\ fmt_out = NoResult
    /\ main_out = NoResult
    /\ clock \in Dates
    /\ pc = [i \in Invs |-> "idle"]
    /\ tool = [i \in Invs |-> ""]
    /\ params = [i \in Invs |-> NoArgs]
    /\ calls = [i \in Invs |-> <<>>]
    /\ ext = [i \in Invs |-> NoResult]
    /\ response = [i \in Invs |-> NoResult]

\* module import runs the next @mcp.tool() decorator
Register ==
    /\ ~Serving
    /\ registry' = add_tool(registry, Decorated[reg_pc])
    /\ reg_pc' = reg_pc + 1
    /\ UNCHANGED <<clock, pc, tool, params, calls, ext, response>>
    /\ UNCHANGED fmtvars

\* the server dispatches a request for tool name t to the handler registered for
\* t, with parameters b; the wrapper runs up to the external call, or to its
\* handler when evaluating the arguments raises
Invoke(i) ==
    /\ Serving
    /\ pc[i] = "idle"
    /\ \E t \in DOMAIN registry : \E b \in Bindings(registry[t].name) :
        LET c == CallExpr(registry[t].name, b, clock) IN
        /\ tool' = [tool EXCEPT ![i] = t]
        /\ params' = [params EXCEPT ![i] = b]
        /\ IF c.kind = "raise"
           THEN /\ response' = [response EXCEPT ![i] = Handler(c)]
                /\ pc' = [pc EXCEPT ![i] = "done"]
                /\ UNCHANGED calls
           ELSE /\ calls' = [calls EXCEPT ![i] = Append(@, c)]
                /\ pc' = [pc EXCEPT ![i] = "in_call"]
                /\ UNCHANGED response
    /\ UNCHANGED <<ext, clock>>
    /\ UNCHANGED fmtvars
    /\ UNCHANGED regvars

\* the external call returns r: df = r; return format_dataframe_to_json(df)
ExtReturn_mut_wait_for_data(i) ==
    /\ pc[i] = "in_call"
    /\ \E r \in ExtResults :
        /\ ext' = [ext EXCEPT ![i] = Return(r)]
        /\ IF r = None
           THEN /\ pc' = [pc EXCEPT ![i] = "waiting"]
                /\ UNCHANGED response
           ELSE /\ pc' = [pc EXCEPT ![i] = "done"]
                /\ response' = [response EXCEPT ![i] = Handler(format_dataframe_to_json(r, DefaultMaxRows))]
    /\ UNCHANGED <<tool, params, calls, clock>>
    /\ UNCHANGED fmtvars
    /\ UNCHANGED regvars
ExtReturn_mut_outside_try(i) ==
    /\ pc[i] = "in_call"
    /\ \E r \in ExtResults :
        /\ ext' = [ext EXCEPT ![i] = Return(r)]
        /\ response' = [response EXCEPT ![i] = format_dataframe_to_json(r, DefaultMaxRows)]
    /\ pc' = [pc EXCEPT ![i] = "done"]
    /\ UNCHANGED <<tool, params, calls, clock>>
    /\ UNCHANGED fmtvars
    /\ UNCHANGED regvars
ExtReturn_mut_cap(i) ==
    /\ pc[i] = "in_call"
    /\ \E r \in ExtResults :
        /\ ext' = [ext EXCEPT ![i] = Return(r)]
        /\ response' = [response EXCEPT ![i] =
                Handler(format_dataframe_to_json(r, IF tool[i] = "stock_zh_a_spot_em"
                                                    THEN DefaultMaxRows + Over
                                                    ELSE DefaultMaxRows))]
    /\ pc' = [pc EXCEPT ![i] = "done"]
    /\ UNCHANGED <<tool, params, calls, clock>>
    /\ UNCHANGED fmtvars
    /\ UNCHANGED regvars
ExtReturn_mut_shared_df(i) ==
    /\ pc[i] = "in_call"
    /\ \E r \in ExtResults :
        LET others == {j \in Invs \ {i} : ext[j].kind = "return"}
            df == IF others = {} THEN r ELSE ext[CHOOSE j \in others : TRUE].value
        IN  /\ ext' = [ext EXCEPT ![i] = Return(r)]
            /\ response' = [response EXCEPT ![i] = Handler(format_dataframe_to_json(df, DefaultMaxRows))]
    /\ pc' = [pc EXCEPT ![i] = "done"]
    /\ UNCHANGED <<tool, params, calls, clock>>
    /\ UNCHANGED fmtvars
    /\ UNCHANGED regvars
ExtReturn(i) ==
    /\ pc[i] = "in_call"
    /\ \E r \in ExtResults :
        /\ ext' = [ext EXCEPT ![i] = Return(r)]
        /\ response' = [response EXCEPT ![i] = Handler(format_dataframe_to_json(r, DefaultMaxRows))]
    /\ pc' = [pc EXCEPT ![i] = "done"]
    /\ UNCHANGED <<tool, params, calls, clock>>
    /\ UNCHANGED fmtvars
    /\ UNCHANGED regvars

\* the external call raises e: the handler returns the error envelope
ExtRaise_mut_timeout(i) ==
    /\ pc[i] = "in_call"
    /\ \/ \E e \in ExtExceptions :
            /\ ext' = [ext EXCEPT ![i] = [kind |-> "raise", exc |-> e]]
            /\ response' = [response EXCEPT ![i] = Handler([kind |-> "raise", exc |-> e])]
       \/ /\ response' = [response EXCEPT ![i] = Handler(Raise("TimeoutError", "tool call timed out"))]
          /\ UNCHANGED ext
    /\ pc' = [pc EXCEPT ![i] = "done"]
    /\ UNCHANGED <<tool, params, calls, clock>>
    /\ UNCHANGED fmtvars
    /\ UNCHANGED regvars
ExtRaise(i) ==
    /\ pc[i] = "in_call"
    /\ \E e \in ExtExceptions :
        /\ ext' = [ext EXCEPT ![i] = [kind |-> "raise", exc |-> e]]
        /\ response' = [response EXCEPT ![i] = Handler([kind |-> "raise", exc |-> e])]
    /\ pc' = [pc EXCEPT ![i] = "done"]
    /\ UNCHANGED <<tool, params, calls, clock>>
    /\ UNCHANGED fmtvars
    /\ UNCHANGED regvars

\* the protocol layer has delivered the response; the next invocation starts afresh
Deliver(i) ==
    /\ pc[i] = "done"
    /\ pc' = [pc EXCEPT ![i] = "idle"]
    /\ tool' = [tool EXCEPT ![i] = ""]
    /\ params' = [params EXCEPT ![i] = NoArgs]
    /\ calls' = [calls EXCEPT ![i] = <<>>]
    /\ ext' = [ext EXCEPT ![i] = NoResult]
    /\ response' = [response EXCEPT ![i] = NoResult]
    /\ UNCHANGED clock
    /\ UNCHANGED fmtvars
    /\ UNCHANGED regvars

Next ==
    \/ Register
    \/ \E i \in Invs : Invoke(i)
    \/ \E i \in Invs : ExtReturn(i)
    \/ \E i \in Invs : ExtRaise(i)
    \/ \E i \in Invs : Deliver(i)

Spec == Init /\ [][Next]_vars

\* the wrappers when every external call comes to an end: the library call of
\* an invocation that is inside it eventually returns or raises.  The wrapper
\* has no loop and no wait of its own, its steps after the call are part of
\* the step that ends the call.
ExtCallEnds(i) == ExtReturn(i) \/ ExtRaise(i)
LiveSpec == Spec /\ \A i \in Invs : WF_vars(ExtCallEnds(i))

\* direct calls of the formatter, no wrapper running
FmtStart ==
    /\ FmtInit
    /\ clock = <<2024, 6, 13>>
    /\ pc = [i \in Invs |-> "idle"]
    /\ tool = [i \in Invs |-> ""]
    /\ params = [i \in Invs |-> NoArgs]
    /\ calls = [i \in Invs |-> <<>>]
    /\ ext = [i \in Invs |-> NoResult]
    /\ response = [i \in Invs |-> NoResult]
    /\ registry = Imported(Len(Decorated))
    /\ reg_pc = Len(Decorated) + 1

FmtNext == FormatCall \/ MainFormatCall

FmtSpec == FmtStart /\ [][FmtNext]_vars

TypeOK ==
    /\ fmt_pc \in {"start", "done"}
    /\ reg_pc \in 1..(Len(Decorated) + 1)
    /\ \A i \in Invs : pc[i] \in {"idle", "in_call", "done"}
(***************************************************************************)
(* Properties of the formatter, checked under FmtSpec.                     *)
(***************************************************************************)
EnvelopeKeys == {"data", "columns", "truncated", "total_rows", "displayed_rows"}
FmtReturned == fmt_pc = "done" /\ fmt_out.kind = "return"
FmtEnvelope == FmtReturned /\ "data" \in DOMAIN fmt_out.value
FmtTable == fmt_df.py = "DataFrame"
NRows == Len(fmt_df.rows)
NCols == Len(fmt_df.columns)

\* the row objects of the first k rows of the caller's table, in order
FirstRows(k) ==
    [i \in 1..k |->
        [c \in Range(fmt_df.columns) |->
            LET v == fmt_df.rows[i][CHOOSE j \in 1..NCols : fmt_df.columns[j] = c]
            IN  IF v = "NaN" \/ v = "inf" THEN "null" ELSE v]]

\* C1: a table of n rows formatted with a cap 1 <= max_rows < n gives an envelope
\* with truncated = true, displayed_rows = max_rows, total_rows = n and data = the
\* first max_rows rows in order.  (The code reports total_rows after truncating.)
C1_TruncatedEnvelope ==
    (fmt_pc = "done" /\ FmtTable /\ NCols >= 1 /\ 1 <= fmt_max_rows /\ fmt_max_rows < NRows)
        => /\ FmtEnvelope
           /\ fmt_out.value.truncated = TRUE
           /\ fmt_out.value.displayed_rows = fmt_max_rows
           /\ fmt_out.value.total_rows = NRows
           /\ fmt_out.value.data = FirstRows(fmt_max_rows)

\* C2: in every data envelope (here: of a call with max_rows >= 1), truncated holds
\* exactly when total_rows > max_rows.
C2_TruncatedIffOverCap ==
    (FmtEnvelope /\ fmt_max_rows >= 1)
        => (fmt_out.value.truncated <=> fmt_out.value.total_rows > fmt_max_rows)

\* C3: a table with at least one column and n rows, 1 <= n <= max_rows, gives an
\* envelope with truncated = false, displayed_rows = n = total_rows and data = all
\* n rows in order.
C3_WithinCap ==
    (fmt_pc = "done" /\ FmtTable /\ NCols >= 1 /\ 1 <= NRows /\ NRows <= fmt_max_rows)
        => /\ FmtEnvelope
           /\ fmt_out.value.truncated = FALSE
           /\ fmt_out.value.displayed_rows = NRows
           /\ fmt_out.value.total_rows = NRows
           /\ Len(fmt_out.value.data) = NRows
           /\ fmt_out.value.data = FirstRows(NRows)

\* C3 witness: a two-column table with exactly max_rows >= 2 rows has been formatted
C3_Witness ==
    /\ fmt_pc = "done" /\ FmtTable /\ NCols = 2 /\ NRows >= 2 /\ NRows = fmt_max_rows
    /\ FmtEnvelope

\* C5: None or a zero-row table gives exactly {"error": "No data available"} for
\* every max_rows; a table with at least one row and one column gives a data
\* envelope, never that error.
C5_NoDataError ==
    fmt_pc = "done" =>
        /\ (fmt_df = None \/ (FmtTable /\ NRows = 0))
              => fmt_out = [kind |-> "return", value |-> [error |-> "No data available"]]
        /\ (FmtTable /\ NRows >= 1 /\ NCols >= 1)
              => (FmtReturned /\ DOMAIN fmt_out.value = EnvelopeKeys)

\* C5 witness: a zero-row table with columns, formatted with a negative cap, gave the error
C5_Witness ==
    /\ fmt_pc = "done" /\ FmtTable /\ NRows = 0 /\ NCols >= 1 /\ fmt_max_rows < 0
    /\ FmtReturned /\ DOMAIN fmt_out.value = {"error"}

\* C9: in every data envelope, displayed_rows <= total_rows.
C9_DisplayedAtMostTotal ==
    FmtEnvelope => fmt_out.value.displayed_rows <= fmt_out.value.total_rows

\* C9 witness: an envelope of a table truncated to a cap of at least one row
C9_Witness ==
    FmtEnvelope /\ fmt_out.value.truncated /\ fmt_max_rows >= 1 /\ NRows > fmt_max_rows

\* C10: in every data envelope, columns is the table's column labels in the
\* table's order, truncated or not.
C10_ColumnOrder ==
    FmtEnvelope => fmt_out.value.columns = fmt_df.columns

\* C10 witness: a truncated envelope of a table whose columns are not in alphabetical order
C10_Witness ==
    /\ FmtEnvelope /\ fmt_out.value.truncated
    /\ fmt_df.columns = <<"date", "close">> /\ fmt_out.value.columns = <<"date", "close">>
(***************************************************************************)
(* Properties of the tool wrappers, checked under Spec.                    *)
(***************************************************************************)
\* C4: when the external call of an invocation raised e, the wrapper returned
\* normally the JSON object whose only key is error, with value str(e): nothing
\* escaped and the response has no data.
C4_ExternalErrorEnvelope ==
    \A i \in Invs :
        (pc[i] = "done" /\ ext[i].kind = "raise")
            => response[i] = [kind |-> "return", value |-> [error |-> ext[i].exc.msg]]

\* C4 witness: stock_notice_report returned after its external call raised a KeyError
C4_Witness ==
    \E i \in Invs :
        /\ pc[i] = "done" /\ tool[i] = "stock_notice_report"
        /\ ext[i].kind = "raise" /\ ext[i].exc.cls = "KeyError"
        /\ response[i].kind = "return"

\* C6: in every invocation each declared parameter, as bound at entry, is passed
\* unchanged to the one external call.  (A parameter bound to None, which a
\* wrapper may document as "the current date", is not held against the code here.)
C6_ParametersPassedUnchanged ==
    \A i \in Invs :
        pc[i] # "idle" =>
            /\ Len(calls[i]) = 1
            /\ \A n \in DOMAIN params[i] :
                  params[i][n] # NoneParam =>
                      /\ n \in DOMAIN calls[i][1].args
                      /\ calls[i][1].args[n] = params[i][n]

\* C7: every invocation that has returned made exactly one external call.
C7_ExactlyOneCall ==
    \A i \in Invs : pc[i] = "done" => Len(calls[i]) = 1

\* C8: every response of a wrapper is a returned JSON object that either has the
\* single key error with a string value, or exactly the five envelope keys.
C8_ResponseShape ==
    \A i \in Invs :
        pc[i] = "done" =>
            /\ response[i].kind = "return"
            /\ \/ DOMAIN response[i].value = {"error"} /\ response[i].value.error \in STRING
               \/ DOMAIN response[i].value = EnvelopeKeys

\* C8 witness: one invocation answered with an error object after the formatter
\* raised on a value that is not a table, another with a truncated data envelope
C8_Witness ==
    \E i, j \in Invs :
        /\ pc[i] = "done" /\ ext[i] = Return(NotATable) /\ DOMAIN response[i].value = {"error"}
        /\ pc[j] = "done" /\ DOMAIN response[j].value = EnvelopeKeys /\ response[j].value.truncated
\* C11: the response of an invocation is determined by its own wrapper, its own
\* parameters and the outcome of its own external call, whatever the other
\* invocation is, does or has received, and however the two interleave.
OwnResponse(t, p, e) ==
    CASE e.kind = "raise" -> [kind |-> "return", value |-> [error |-> e.exc.msg]]
      [] e.kind = "return" -> Handler(format_dataframe_to_json(e.value, DefaultMaxRows))
      [] e.kind = "none" -> Handler(CallExpr(t, p, clock))
C11_Independent ==
    \A i \in Invs :
        /\ pc[i] = "done" => response[i] = OwnResponse(tool[i], params[i], ext[i])
        /\ pc[i] # "done" => response[i] = NoResult

\* C11 witness: both invocations have returned, the one whose call returned a
\* table of more than 50 rows with a data envelope, the other, whose call
\* returned nothing, with the error object
C11_Witness ==
    \E i, j \in Invs :
        /\ i # j /\ pc[i] = "done" /\ pc[j] = "done"
        /\ ext[i].kind = "return" /\ ext[i].value.py = "DataFrame" /\ Len(ext[i].value.rows) > 50
        /\ ext[j] = Return(None)
        /\ DOMAIN response[i].value = EnvelopeKeys /\ DOMAIN response[j].value = {"error"}
\* C13: a call of the formatter leaves the caller's table (rows, row count and
\* columns) and cap as they were, also when it truncates, and writes no other state.
C13_NoSideEffects ==
    [][fmt_df' = fmt_df /\ fmt_max_rows' = fmt_max_rows /\ UNCHANGED toolvars]_vars

\* C13 witness: a call has truncated, and the caller's table still has more rows
\* than the envelope's data
C13_Witness ==
    /\ FmtEnvelope /\ fmt_out.value.truncated /\ NCols = 2
    /\ NRows = MaxRows /\ Len(fmt_out.value.data) < NRows
\* C14: an invocation whose external call has neither returned nor raised has no
\* response: while it is inside the call there is none, and one that made the
\* call and has a response has the call's outcome.  Nothing but the end of the
\* external call takes an invocation out of the call.
C14_NoResponseWhileCallPending ==
    \A i \in Invs :
        /\ pc[i] = "in_call" => (response[i] = NoResult /\ ext[i] = NoResult)
        /\ (response[i] # NoResult /\ Len(calls[i]) > 0) => ext[i].kind \in {"return", "raise"}

\* C14 witness: one invocation is still inside its external call, without a
\* response, after the other, invoked later or earlier, has already returned
C14_Witness ==
    \E i, j \in Invs :
        /\ pc[i] = "in_call" /\ Len(calls[i]) = 1 /\ response[i] = NoResult
        /\ pc[j] = "done" /\ response[j].kind = "return"
\* C15: stock_notice_report calls the library with the caller's symbol unchanged
\* and with the caller's date unchanged when one is given, with the current date
\* written as YYYYMMDD when the date is None.
TodayYYYYMMDD ==
    CASE clock = <<2024, 6, 13>> -> "20240613"
      [] clock = <<2025, 12, 1>> -> "20251201"
C15_NoticeReportDate ==
    \A i \in Invs :
        (tool[i] = "stock_notice_report" /\ pc[i] # "idle") =>
            /\ Len(calls[i]) = 1
            /\ calls[i][1].fn = "stock_notice_report"
            /\ DOMAIN calls[i][1].args = {"symbol", "date"}
            /\ calls[i][1].args.symbol = params[i].symbol
            /\ calls[i][1].args.date =
                  IF params[i].date = NoneParam THEN TodayYYYYMMDD ELSE params[i].date

\* C15 witness: stock_notice_report is inside its call, invoked without a date
\* on 1 December 2025 and with a symbol of the caller
C15_Witness ==
    \E i \in Invs :
        /\ tool[i] = "stock_notice_report" /\ pc[i] = "in_call"
        /\ params[i].date = NoneParam /\ params[i].symbol = "X" /\ clock = <<2025, 12, 1>>
        /\ calls[i][1].args.date = "20251201"
\* C16: in every data envelope, a cell of a displayed row that is missing (NaN)
\* or not finite is null in the row object of that row, under its column's key.
C16_MissingIsNull ==
    FmtEnvelope =>
        \A k \in 1..Len(fmt_out.value.data) : \A j \in 1..NCols :
            fmt_df.rows[k][j] \in {"NaN", "inf"} =>
                /\ fmt_df.columns[j] \in DOMAIN fmt_out.value.data[k]
                /\ fmt_out.value.data[k][fmt_df.columns[j]] = "null"

\* C16 witness: an envelope whose second displayed row had a missing and an
\* infinite cell, both null in the data
C16_Witness ==
    /\ FmtEnvelope /\ NCols = 2 /\ Len(fmt_out.value.data) >= 2
    /\ fmt_df.rows[2] = <<"NaN", "inf">>
    /\ \A c \in {"date", "close"} : fmt_out.value.data[2][c] = "null"
\* C17: registrations only add entries, never replace one; once the module is
\* imported the table holds exactly one entry per decorated function, under
\* that function's own name, and no later step (no invocation) changes it.
C17_RegistrationTable ==
    [][ /\ \A n \in DOMAIN registry : n \in DOMAIN registry' /\ registry'[n] = registry[n]
        /\ Serving => registry' = registry
        /\ Serving' =>
              /\ DOMAIN registry' = {Decorated[k].name : k \in 1..Len(Decorated)}
              /\ \A k \in 1..Len(Decorated) : registry'[Decorated[k].name] = Decorated[k]
              /\ Cardinality(DOMAIN registry') = Len(Decorated) ]_vars

\* C17 witness: every function registered, and two tools registered one after
\* the other have been invoked and have answered
C17_Witness ==
    /\ Serving /\ Cardinality(DOMAIN registry) = Len(Decorated)
    /\ \E i, j \in Invs :
        /\ pc[i] = "done" /\ tool[i] = "stock_hk_hist" /\ registry[tool[i]].line = 5724
        /\ pc[j] = "done" /\ tool[j] = "stock_hk_hist_min_em" /\ registry[tool[j]].line = 5747
C19_DisplayedIsDataLength ==
    (FmtEnvelope /\ fmt_max_rows >= 0) =>
        fmt_out.value.displayed_rows = Len(fmt_out.value.data)

\* C19 witness: a table cut from three rows to two, and a table of two rows
\* under a larger cap, both answer displayed_rows = 2 with two entries
C19_Witness ==
    /\ FmtEnvelope /\ fmt_max_rows >= 0
    /\ fmt_out.value.displayed_rows = 2 /\ Len(fmt_out.value.data) = 2
    /\ \/ NRows = 3 /\ fmt_max_rows = 2
       \/ NRows = 2 /\ fmt_max_rows = 3

\* C20: each row object of data has exactly the names listed in columns as
\* its keys.
C20_RowKeysAreColumns ==
    FmtEnvelope =>
        \A k \in 1..Len(fmt_out.value.data) :
            DOMAIN fmt_out.value.data[k] =
                {fmt_out.value.columns[j] : j \in 1..Len(fmt_out.value.columns)}

\* C20 witness: an envelope of a two-column table whose first row has a
\* missing cell and whose row object still has both keys
C20_Witness ==
    /\ FmtEnvelope /\ fmt_df.columns = <<"close", "date">>
    /\ Len(fmt_out.value.data) >= 1 /\ fmt_df.rows[1] = <<"NaN", "1">>
    /\ fmt_out.value.columns = <<"close", "date">>
    /\ DOMAIN fmt_out.value.data[1] = {"close", "date"}
\* C21: when the external call of an invocation returned a value that is not a
\* table, so that the formatter, called on it, raises, the wrapper has returned
\* normally the object whose only key is error, with the text of that
\* exception: the exception did not escape the wrapper.
C21_FormatterErrorCaught ==
    \A i \in Invs :
        (pc[i] = "done" /\ ext[i].kind = "return" /\ ext[i].value.py \notin {"None", "DataFrame"}) =>
            LET f == format_dataframe_to_json(ext[i].value, DefaultMaxRows)
            IN  /\ f.kind = "raise"
                /\ response[i].kind = "return"
                /\ DOMAIN response[i].value = {"error"}
                /\ response[i].value.error = f.exc.msg
                /\ response[i].value.error = "'str' object has no attribute 'empty'"

\* C21 witness: stock_sse_summary has answered after its external call returned
\* a string instead of a table
C21_Witness ==
    \E i \in Invs :
        /\ pc[i] = "done" /\ tool[i] = "stock_sse_summary" /\ Len(calls[i]) = 1
        /\ ext[i] = Return(NotATable)
        /\ response[i] = Return([error |-> "'str' object has no attribute 'empty'"])
\* C22: when every external call comes to an end, an invocation that is inside
\* its external call eventually has returned a response string, with the
\* call's outcome known; a response, once returned, is never replaced by
\* another one (it is only cleared when the invocation is over), and an
\* invocation gets its response in the step that ends its external call or,
\* when it made no call, in the step that invoked it.
C22_EventuallyOneResponse ==
    /\ \A i \in Invs :
          (pc[i] = "in_call") ~>
              (pc[i] = "done" /\ response[i].kind = "return" /\ ext[i].kind \in {"return", "raise"})
    /\ [][\A i \in Invs :
            /\ response[i] # NoResult =>
                  \/ response'[i] = response[i]
                  \/ pc[i] = "done" /\ pc'[i] = "idle" /\ response'[i] = NoResult
            /\ (response[i] = NoResult /\ response'[i] # NoResult) =>
                  \/ pc[i] = "in_call" /\ ext[i] = NoResult /\ ext'[i].kind \in {"return", "raise"}
                  \/ pc[i] = "idle" /\ calls'[i] = <<>>]_vars

\* C22 witness: an invocation has returned its response after its external
\* call returned a table, while the other is still inside its call
C22_Witness ==
    \E i, j \in Invs :
        /\ pc[i] = "done" /\ tool[i] = "stock_szse_summary" /\ Len(calls[i]) = 1
        /\ ext[i] = Return(ExtTable(1)) /\ response[i].kind = "return"
        /\ "data" \in DOMAIN response[i].value
        /\ pc[j] = "in_call"
\* C23: an invocation of stock_zh_vote_baidu, whatever its symbol and
\* indicator, has returned the error object of the NameError on symbo, and
\* has made no external call.
C23_VoteBaiduAlwaysFails ==
    \A i \in Invs :
        (tool[i] = "stock_zh_vote_baidu" /\ pc[i] # "idle") =>
            /\ pc[i] = "done"
            /\ calls[i] = <<>>
            /\ ext[i] = NoResult
            /\ response[i] = [kind |-> "return",
                              value |-> [error |-> "name 'symbo' is not defined"]]

\* C23 witness: stock_zh_vote_baidu answered once for a symbol of the caller
\* and once for an indicator of the caller
C23_Witness ==
    \E i, j \in Invs :
        /\ tool[i] = "stock_zh_vote_baidu" /\ pc[i] = "done"
        /\ params[i].symbol = "X" /\ params[i].indicator = "zhishu"
        /\ tool[j] = "stock_zh_vote_baidu" /\ pc[j] = "done"
        /\ params[j].symbol = "000001" /\ params[j].indicator = "X"
        /\ DOMAIN response[i].value = {"error"} /\ response[j] = response[i]
\* C24: stock_hk_hist and stock_hk_hist_min_em call the library without
\* arguments: two invocations of the same one of them make the same call
\* whatever their symbol, period, adjust, start_date and end_date are, and when
\* their external calls ended the same way their responses are identical.
C24_HkHistIgnoresParameters ==
    \A i, j \in Invs :
        (/\ tool[i] \in {"stock_hk_hist", "stock_hk_hist_min_em"}
         /\ tool[j] = tool[i] /\ pc[i] # "idle" /\ pc[j] # "idle") =>
            /\ calls[i] = <<[kind |-> "call", fn |-> tool[i], args |-> NoArgs]>>
            /\ calls[j] = calls[i]
            /\ (pc[i] = "done" /\ pc[j] = "done" /\ ext[i] = ext[j]) => response[i] = response[j]

\* C24 witness: two invocations of stock_hk_hist, one with a symbol and one with
\* an end_date of the caller, answered with the same envelope after the same table
C24_Witness ==
    \E i, j \in Invs :
        /\ i # j /\ tool[i] = "stock_hk_hist" /\ tool[j] = "stock_hk_hist"
        /\ pc[i] = "done" /\ pc[j] = "done"
        /\ params[i].symbol = "X" /\ params[j].symbol = "01611" /\ params[j].end_date = "X"
        /\ ext[i] = Return(ExtTable(1)) /\ ext[j] = ext[i]
        /\ "data" \in DOMAIN response[i].value /\ response[j] = response[i]
\* C25: a table without columns is empty for the formatter, with one or more
\* rows as with none: the result is exactly {"error": "No data available"},
\* for every max_rows.
C25_NoColumnsIsNoData ==
    (fmt_pc = "done" /\ FmtTable /\ NCols = 0) =>
        /\ fmt_out.kind = "return"
        /\ DOMAIN fmt_out.value = {"error"}
        /\ fmt_out.value.error = "No data available"

\* C25 witness: a table of two rows and no column has been formatted with a
\* cap below its row count and gave the error object
C25_Witness ==
    /\ fmt_pc = "done" /\ FmtTable /\ NCols = 0 /\ NRows = 2 /\ fmt_max_rows = 1
    /\ fmt_out = [kind |-> "return", value |-> [error |-> "No data available"]]
\* C26: for the same table (or None, or a value that is not a table) and the
\* same max_rows, the formatter of src/main.py and the formatter of
\* src/server.py end the same way: the same JSON document returned, or the
\* same exception raised.
C26_MainEquivalent ==
    (fmt_pc = "done" /\ main_out # NoResult) => main_out = fmt_out

\* C26 witness: both formatters have truncated the same three-row table to two rows
C26_Witness ==
    /\ FmtEnvelope /\ main_out # NoResult /\ NRows = 3 /\ NCols = 2 /\ fmt_max_rows = 2
    /\ main_out.kind = "return" /\ main_out.value.truncated /\ Len(main_out.value.data) = 2
\* C27: a table with at least one row and one column formatted with
\* max_rows = 0 gives a data envelope, not an error: data is empty, columns is
\* the table's columns, truncated is true and displayed_rows is 0.
C27_ZeroCap ==
    (fmt_pc = "done" /\ FmtTable /\ NRows >= 1 /\ NCols >= 1 /\ fmt_max_rows = 0) =>
        /\ fmt_out.kind = "return"
        /\ "error" \notin DOMAIN fmt_out.value
        /\ DOMAIN fmt_out.value = EnvelopeKeys
        /\ fmt_out.value.data = <<>>
        /\ fmt_out.value.columns = fmt_df.columns
        /\ fmt_out.value.truncated = TRUE
        /\ fmt_out.value.displayed_rows = 0

\* C27 witness: a table of three rows and two columns has been formatted with cap 0
C27_Witness ==
    /\ fmt_pc = "done" /\ FmtTable /\ NRows = 3 /\ fmt_df.columns = <<"close", "date">>
    /\ fmt_max_rows = 0
    /\ fmt_out.kind = "return" /\ fmt_out.value.data = <<>>
    /\ fmt_out.value.columns = <<"close", "date">>
====
